---- MODULE Spec2Model ----
(***************************************************************************)
(* Model of AIP_TECHNICAL_ANALYSIS.py: a Streamlit script that is run from *)
(* top to bottom on every user interaction.  One script run is the chain   *)
(*   setup_ollama -> Load Data handler -> chart assembly ->                *)
(*   Generate AI Report handler -> end of script                           *)
(* and pc is the position of the run in the script.  Between two runs the  *)
(* session keeps st.session_state.stock_data, the st.cache_data entry of   *)
(* get_stock_data and the values of the widgets that were rendered.        *)
(*                                                                         *)
(* A price table is modelled by its Close column, a sequence of integers.  *)
(* Floating point results are kept as exact fractions [num, den]; NaN is   *)
(* the value with def = FALSE.  The ticker and the two dates stay at their *)
(* defaults, so the cache of get_stock_data has a single key.              *)
(***************************************************************************)
EXTENDS Integers, Sequences, FiniteSets, TLC

VARIABLES
    pc,             \* position of the current script run
    event,          \* button that triggered the run: "none", "load", "generate"
    stock_data,     \* st.session_state.stock_data
    cache,          \* st.cache_data entry of get_stock_data
    indicators,     \* value of the indicator multiselect (selection order)
    analysis_type,  \* value of the mode radio (sequence of characters)
    sidebarShown,   \* the previous run rendered the sidebar
    chartShown,     \* the previous run rendered the chart and analysis section
    models,         \* local `models` of setup_ollama
    fetch,          \* what get_stock_data did in this run
    page,           \* elements written to the page in this run
    failures,       \* external calls that failed in this run
    fig,            \* trace list of the figure built in this run
    tmpBound,       \* the name `tmp` is bound in the script namespace
    tmpExists,      \* the temporary png exists on disk
    fileBytes,      \* content of the temporary png
    img_b64,        \* base64 text of the image
    attempt,        \* loop variable of the retry loop
    callLog,        \* ollama_client.chat calls made in this run
    delays,         \* number of time.sleep calls in this run
    slept,          \* seconds slept in this run
    response,       \* local `response`
    exc,            \* exception caught by the outer except
    shown,          \* content written by st.write
    lastLoad        \* what the latest call of get_stock_data returned

vars == <<pc, event, stock_data, cache, indicators, analysis_type,
          sidebarShown, chartShown, models, fetch, page, failures, fig,
          tmpBound, tmpExists, fileBytes, img_b64, attempt, callLog, delays,
          slept, response, exc, shown, lastLoad>>

session == <<stock_data, cache, lastLoad>>
widgets == <<indicators, analysis_type>>
shownFlags == <<sidebarShown, chartShown>>
analysisLocals == <<tmpBound, tmpExists, fileBytes, img_b64, attempt, callLog,
                    delays, slept, response, exc, shown>>

(***************************************************************************)
(* Bounds of the model.                                                    *)
(***************************************************************************)
MaxLen == 2      \* longest price series the provider returns in Spec
MaxMod == 3      \* longest period of the close pattern
MaxSel == 2      \* most indicators selected at once
Slack == 1       \* series lengths within Slack of each window, in SpecSMA

(***************************************************************************)
(* Program constants.                                                      *)
(***************************************************************************)
MaxAttempts == 3
LastAttemptIndex == 2
SleepSeconds == 2
Sma50Window == 50
Sma200Window == 200
EmaSpan == 20
BollWindow == 20
BollK == 2

IndicatorOptions ==
    {"50-Day SMA", "200-Day SMA", "20-Day EMA", "Bollinger Bands", "RSI", "MACD"}
DefaultIndicators == <<"50-Day SMA">>

BasicLabel ==
    <<"B", "a", "s", "i", "c", " ", "T", "e", "c", "h", "n", "i", "c", "a", "l",
      " ", "A", "n", "a", "l", "y", "s", "i", "s">>
AdvancedLabel ==
    <<"A", "d", "v", "a", "n", "c", "e", "d", " ", "P", "a", "t", "t", "e", "r",
      "n", " ", "R", "e", "c", "o", "g", "n", "i", "t", "i", "o", "n">>
AnalysisModes == {BasicLabel, AdvancedLabel}
VisionNeedle == <<"v", "i", "s", "i", "o", "n">>
PatternNeedle == <<"P", "a", "t", "t", "e", "r", "n">>

ModelNames == {"llama3", "mistral"}
Catalogs == SUBSET ModelNames

(***************************************************************************)
(* Small helpers.                                                          *)
(***************************************************************************)
Range(s) == {s[i] : i \in 1..Len(s)}

SeqsUpTo(S, n) == UNION {[1..k -> S] : k \in 0..n}

Injective(s) == \A i, j \in 1..Len(s) : s[i] = s[j] => i = j

\* what st.multiselect can return: distinct options in selection order
Selections == {s \in SeqsUpTo(IndicatorOptions, MaxSel) : Injective(s)}

NaN == [def |-> FALSE, num |-> 0, den |-> 1]
Frac(n, d) == [def |-> TRUE, num |-> n, den |-> d]

RECURSIVE Pow(_, _)
Pow(b, e) == IF e = 0 THEN 1 ELSE b * Pow(b, e - 1)

\* close pattern of n sessions: 1, 2, .., m, 1, 2, ..
Saw(n, m) == [i \in 1..n |-> 1 + ((i - 1) % m)]

NoData == [state |-> "None", data |-> <<>>]
Absent == [state |-> "absent", data |-> <<>>]
Data(d) == [state |-> "data", data |-> d]

(***************************************************************************)
(* Indicator computation: pandas rolling(window) and ewm(span) on Close.   *)
(* rolling(w) gives observation i the window start(i)..i with              *)
(* start(i) = max(first, i - w + 1); an aggregate of the window is         *)
(* produced when the window holds min_periods observations, and            *)
(* min_periods defaults to w.                                              *)
(***************************************************************************)
MinPeriods(w) == w

WindowStart(i, w) == IF i - w + 1 > 1 THEN i - w + 1 ELSE 1

\* sum of x[lo..hi] and of the squares, by halving the range
RECURSIVE Sum(_, _, _)
Sum(x, lo, hi) ==
    IF lo > hi THEN 0
    ELSE IF lo = hi THEN x[lo]
    ELSE LET mid == (lo + hi) \div 2
         IN  Sum(x, lo, mid) + Sum(x, mid + 1, hi)

RECURSIVE SumSq(_, _, _)
SumSq(x, lo, hi) ==
    IF lo > hi THEN 0
    ELSE IF lo = hi THEN x[lo] * x[lo]
    ELSE LET mid == (lo + hi) \div 2
         IN  SumSq(x, lo, mid) + SumSq(x, mid + 1, hi)

RollingMean(x, w) ==
    [i \in 1..Len(x) |->
        LET start == WindowStart(i, w)
            nobs == i - start + 1
        IN  IF nobs >= MinPeriods(w) /\ nobs > 0
            THEN Frac(Sum(x, start, i), nobs)
            ELSE NaN]

BandNaN == [def |-> FALSE, num |-> 0, den |-> 1, k |-> 0, varnum |-> 0, varden |-> 1]

\* sma + k*std with std the sample deviation (ddof = 1) of the same window:
\* the value is mean num/den plus k times the root of varnum/varden
RollingBand(x, w, k) ==
    [i \in 1..Len(x) |->
        LET start == WindowStart(i, w)
            nobs == i - start + 1
            s == Sum(x, start, i)
            q == SumSq(x, start, i)
        IN  IF nobs >= MinPeriods(w) /\ nobs > 1
            THEN [def |-> TRUE, num |-> s, den |-> nobs, k |-> k,
                  varnum |-> nobs * q - s * s, varden |-> nobs * (nobs - 1)]
            ELSE BandNaN]

\* ewm(span).mean() with adjust=True: weights (1-alpha)^j, alpha = 2/(span+1),
\* numerator and denominator both scaled by (span+1)^(i-1)
RECURSIVE EwmMean(_, _, _, _, _, _)
EwmMean(x, span, i, num, den, out) ==
    IF i > Len(x) THEN out
    ELSE LET scale == Pow(span + 1, i - 1)
             n == (span - 1) * num + scale * x[i]
             d == (span - 1) * den + scale
         IN  EwmMean(x, span, i + 1, n, d, Append(out, Frac(n, d)))

Ewm(x, span) == EwmMean(x, span, 1, 0, 0, <<>>)

Sma50Short(closes) == RollingMean(closes, BollWindow)
Sma50(closes) == RollingMean(closes, Sma50Window)

Sma200(closes) == RollingMean(closes, Sma200Window)

Ema20(closes) == Ewm(closes, EmaSpan)

UpperBand(closes) == RollingBand(closes, BollWindow, BollK)

LowerBand(closes) == RollingBand(closes, BollWindow, 0 - BollK)

(***************************************************************************)
(* Chart assembly.                                                         *)
(***************************************************************************)
Trace(name, y) == [name |-> name, y |-> y]

Candlestick(closes) == Trace("Price", [i \in 1..Len(closes) |-> Frac(closes[i], 1)])

TracesOf(ind, closes) ==
    CASE ind = "50-Day SMA" -> <<Trace("50-Day SMA", Sma50(closes))>>
      [] ind = "200-Day SMA" -> <<Trace("200-Day SMA", Sma200(closes))>>
      [] ind = "20-Day EMA" -> <<Trace("20-Day EMA", Ema20(closes))>>
      [] ind = "Bollinger Bands" ->
            <<Trace("Upper Band", UpperBand(closes)),
              Trace("Lower Band", LowerBand(closes))>>
      [] OTHER -> <<>>

IfSelected(ind, sel, closes) ==
    IF ind \in Range(sel) THEN TracesOf(ind, closes) ELSE <<>>

\* a loop over the selection instead of one membership test per indicator
RECURSIVE OverlaysPerSelection(_, _)
OverlaysPerSelection(closes, sel) ==
    IF sel = <<>> THEN <<>>
    ELSE TracesOf(Head(sel), closes) \o OverlaysPerSelection(closes, Tail(sel))

\* the EMA block placed before the 200-day block
OverlaysSwapped(closes, sel) ==
    IfSelected("50-Day SMA", sel, closes)
    \o IfSelected("20-Day EMA", sel, closes)
    \o IfSelected("200-Day SMA", sel, closes)
    \o IfSelected("Bollinger Bands", sel, closes)

Overlays(closes, sel) ==
    IfSelected("50-Day SMA", sel, closes)
    \o IfSelected("200-Day SMA", sel, closes)
    \o IfSelected("20-Day EMA", sel, closes)
    \o IfSelected("Bollinger Bands", sel, closes)

Figure(closes, sel) == <<Candlestick(closes)>> \o Overlays(closes, sel)

(***************************************************************************)
(* Pure helpers of the two handlers.                                       *)
(***************************************************************************)
\* Python's `needle in hay` on strings
Contains(needle, hay) ==
    \E i \in 0..(Len(hay) - Len(needle)) :
        \A j \in 1..Len(needle) : hay[i + j] = needle[j]

ModelForPattern(label) == IF Contains(PatternNeedle, label) THEN "llava" ELSE "llama3"
ModelFor(label) == IF Contains(VisionNeedle, label) THEN "llava" ELSE "llama3"

PromptFor(label) == IF label = BasicLabel THEN "basic" ELSE "advanced"

\* base64.b64encode: three bytes give four 6-bit digits, 64 is the pad '='
B64Group(b) ==
    LET n == b[1] * 65536 + (IF Len(b) > 1 THEN b[2] * 256 ELSE 0)
             + (IF Len(b) > 2 THEN b[3] ELSE 0)
    IN  << n \div 262144, (n \div 4096) % 64,
           IF Len(b) > 1 THEN (n \div 64) % 64 ELSE 64,
           IF Len(b) > 2 THEN n % 64 ELSE 64 >>

RECURSIVE B64(_)
B64(bytes) ==
    IF bytes = <<>> THEN <<>>
    ELSE IF Len(bytes) <= 3 THEN B64Group(bytes)
    ELSE B64Group(SubSeq(bytes, 1, 3)) \o B64(SubSeq(bytes, 4, Len(bytes)))

\* png files fig.write_image may leave in the temporary file
Images == {<<137, 80, 78>>, <<137, 80, 78, 71>>}

\* tables yf.download may return; the empty table is <<>>
ProviderSeries == {Saw(n, m) : n \in 0..MaxLen, m \in 1..MaxMod}
ProviderOutcomes ==
    {[kind |-> "raise", data |-> <<>>]}
    \cup {[kind |-> "table", data |-> d] : d \in ProviderSeries}

\* body of get_stock_data: the value returned and the st.error it writes
GetStockData(o) ==
    IF o.kind = "raise" THEN [value |-> NoData, msg |-> "err_yfinance"]
    ELSE IF o.data = <<>> THEN [value |-> NoData, msg |-> "err_no_data"]
    ELSE [value |-> Data(o.data), msg |-> "none"]

Miss == [state |-> "miss", value |-> NoData, msg |-> "none"]
Entry(r) == [state |-> "hit", value |-> r.value, msg |-> r.msg]

Messages(msg) == IF msg = "none" THEN {} ELSE {msg}

\* the assignment of the Load Data handler; the variant keeps the old series
\* when the fetch gave nothing
KeepOnFailure(old, result) == IF result.state = "None" THEN old ELSE result
StoreResult(old, result) == result

\* `if not models.get('models')`; the variant looks for the model to be called
ExpectedModelMissing(catalog) == "llama3" \notin catalog
NoModels(catalog) == catalog = {}

\* end of the except branch of setup_ollama: st.stop(); the variant returns
ContinueAfterSetupFailure == "load"
AfterSetupFailure == "stopped"

\* `if attempt == 2: raise`; the variant never re-raises inside range(3)
IsAttemptThree(a) == a = MaxAttempts
IsLastAttempt(a) == a = LastAttemptIndex

\* `if 'tmp' in locals(): os.unlink(tmp.name)`; the variant cleans up only
\* when no exception was caught
UnlinkOnSuccess(bound, caught) == bound /\ caught.kind = "none"
FinallyUnlinks(bound, caught) == bound

NoExc == [kind |-> "none", call |-> 0]
NoResponse == [state |-> "None", content |-> 0]

(***************************************************************************)
(* State at the start of a script run and the first run of a session.      *)
(***************************************************************************)
RunLocalsInit ==
    /\ models = [state |-> "unset", names |-> {}]
    /\ fetch = "none"
    /\ page = {}
    /\ failures = {}
    /\ fig = <<>>
    /\ tmpBound = FALSE
    /\ tmpExists = FALSE
    /\ fileBytes = <<>>
    /\ img_b64 = <<>>
    /\ attempt = 0
    /\ callLog = <<>>
    /\ delays = 0
    /\ slept = 0
    /\ response = NoResponse
    /\ exc = NoExc
    /\ shown = 0

\* the same values given to the next state
ResetRunLocals ==
    /\ models' = [state |-> "unset", names |-> {}]
    /\ fetch' = "none"
    /\ page' = {}
    /\ failures' = {}
    /\ fig' = <<>>
    /\ tmpBound' = FALSE
    /\ tmpExists' = FALSE
    /\ fileBytes' = <<>>
    /\ img_b64' = <<>>
    /\ attempt' = 0
    /\ callLog' = <<>>
    /\ delays' = 0
    /\ slept' = 0
    /\ response' = NoResponse
    /\ exc' = NoExc
    /\ shown' = 0

runLocals == <<models, fetch, page, failures, fig, tmpBound, tmpExists,
               fileBytes, img_b64, attempt, callLog, delays, slept, response,
               exc, shown>>

Init ==
    /\ pc = "setup"
    /\ event = "none"
    /\ stock_data = Absent
    /\ cache = Miss
    /\ lastLoad = "never"
    /\ indicators = DefaultIndicators
    /\ analysis_type = BasicLabel
    /\ sidebarShown = FALSE
    /\ chartShown = FALSE
    /\ RunLocalsInit

(***************************************************************************)
(* User interaction: every interaction starts a new script run.            *)
(***************************************************************************)
StartRun(ev) ==
    /\ pc = "idle"
    /\ pc' = "setup"
    /\ event' = ev
    /\ UNCHANGED <<session, shownFlags, runLocals>>

Rerun ==
    /\ StartRun("none")
    /\ UNCHANGED widgets

ClickLoad ==
    /\ sidebarShown
    /\ StartRun("load")
    /\ UNCHANGED widgets

ChangeIndicators ==
    /\ chartShown
    /\ \E sel \in Selections :
          /\ sel # indicators
          /\ indicators' = sel
    /\ StartRun("none")
    /\ UNCHANGED analysis_type

ChangeMode ==
    /\ chartShown
    /\ \E m \in AnalysisModes :
          /\ m # analysis_type
          /\ analysis_type' = m
    /\ StartRun("none")
    /\ UNCHANGED indicators

ClickGenerate ==
    /\ chartShown
    /\ StartRun("generate")
    /\ UNCHANGED widgets

\* ttl=3600 of st.cache_data: the entry is dropped when it is too old
CacheExpire ==
    /\ pc = "idle"
    /\ cache.state = "hit"
    /\ cache' = Miss
    /\ UNCHANGED <<pc, event, stock_data, lastLoad, widgets, shownFlags, runLocals>>

(***************************************************************************)
(* setup_ollama                                                            *)
(***************************************************************************)
SetupConnectFail ==
    /\ pc = "setup"
    /\ page' = page \cup {"err_connect"}
    /\ failures' = failures \cup {"connect"}
    /\ pc' = AfterSetupFailure
    /\ UNCHANGED <<event, session, widgets, shownFlags, models, fetch, fig,
                   analysisLocals>>

SetupList ==
    /\ pc = "setup"
    /\ \E catalog \in Catalogs : models' = [state |-> "listed", names |-> catalog]
    /\ pc' = "setup_check"
    /\ UNCHANGED <<event, session, widgets, shownFlags, fetch, page, failures,
                   fig, analysisLocals>>

SetupCheck ==
    /\ pc = "setup_check"
    /\ page' = IF NoModels(models.names) THEN page \cup {"warn_no_models"} ELSE page
    /\ pc' = "setup_return"
    /\ UNCHANGED <<event, session, widgets, shownFlags, models, fetch, failures,
                   fig, analysisLocals>>

SetupReturn ==
    /\ pc = "setup_return"
    /\ models' = [state |-> "unset", names |-> {}]
    /\ pc' = "load"
    /\ UNCHANGED <<event, session, widgets, shownFlags, fetch, page, failures,
                   fig, analysisLocals>>

(***************************************************************************)
(* Load Data handler with the cached get_stock_data                        *)
(***************************************************************************)
LoadDataMiss ==
    /\ pc = "load"
    /\ event = "load"
    /\ cache.state = "miss"
    /\ \E o \in ProviderOutcomes :
          LET r == GetStockData(o)
          IN  /\ cache' = Entry(r)
              /\ page' = page \cup Messages(r.msg)
              /\ failures' = IF o.kind = "raise" THEN failures \cup {"fetch"}
                             ELSE failures
              /\ fetch' = IF o.kind = "raise" THEN "raise"
                          ELSE IF o.data = <<>> THEN "empty" ELSE "table"
              /\ lastLoad' = r.value.state
              /\ stock_data' = StoreResult(stock_data, r.value)
    /\ pc' = "chart"
    /\ UNCHANGED <<event, widgets, shownFlags, models, fig, analysisLocals>>

\* a cached call returns the stored value and replays the stored st.error
LoadDataHit ==
    /\ pc = "load"
    /\ event = "load"
    /\ cache.state = "hit"
    /\ page' = page \cup Messages(cache.msg)
    /\ fetch' = "hit"
    /\ lastLoad' = cache.value.state
    /\ stock_data' = StoreResult(stock_data, cache.value)
    /\ pc' = "chart"
    /\ UNCHANGED <<event, cache, widgets, shownFlags, models, failures, fig,
                   analysisLocals>>

NoLoad ==
    /\ pc = "load"
    /\ event # "load"
    /\ pc' = "chart"
    /\ UNCHANGED <<event, session, widgets, shownFlags, runLocals>>

(***************************************************************************)
(* Main chart                                                              *)
(***************************************************************************)
RenderChart ==
    /\ pc = "chart"
    /\ stock_data.state = "data"
    /\ fig' = Figure(stock_data.data, indicators)
    /\ page' = page \cup {"chart"}
    /\ pc' = "analysis"
    /\ UNCHANGED <<event, session, widgets, shownFlags, models, fetch, failures,
                   analysisLocals>>

SkipChart ==
    /\ pc = "chart"
    /\ stock_data.state # "data"
    /\ pc' = "end"
    /\ UNCHANGED <<event, session, widgets, shownFlags, runLocals>>

(***************************************************************************)
(* Generate AI Report handler                                              *)
(***************************************************************************)
outside == <<event, session, widgets, shownFlags, models, fetch, fig>>

NoReport ==
    /\ pc = "analysis"
    /\ event # "generate"
    /\ pc' = "end"
    /\ UNCHANGED <<event, session, widgets, shownFlags, runLocals>>

Raise(kind, call) ==
    /\ exc' = [kind |-> kind, call |-> call]
    /\ pc' = "except"

\* tempfile.NamedTemporaryFile(suffix=".png", delete=False) as tmp
CreateTmp ==
    /\ pc = "analysis"
    /\ event = "generate"
    /\ tmpBound' = TRUE
    /\ tmpExists' = TRUE
    /\ pc' = "write"
    /\ UNCHANGED <<outside, page, failures, fileBytes, img_b64, attempt, callLog,
                   delays, slept, response, exc, shown>>

CreateTmpFail ==
    /\ pc = "analysis"
    /\ event = "generate"
    /\ failures' = failures \cup {"tmpfile"}
    /\ Raise("tmpfile", 0)
    /\ UNCHANGED <<outside, page, tmpBound, tmpExists, fileBytes, img_b64,
                   attempt, callLog, delays, slept, response, shown>>

\* fig.write_image(tmp.name, scale=2)
WriteImage ==
    /\ pc = "write"
    /\ \E img \in Images : fileBytes' = img
    /\ pc' = "encode"
    /\ UNCHANGED <<outside, page, failures, tmpBound, tmpExists, img_b64, attempt,
                   callLog, delays, slept, response, exc, shown>>

WriteImageFail ==
    /\ pc = "write"
    /\ failures' = failures \cup {"raster"}
    /\ Raise("raster", 0)
    /\ UNCHANGED <<outside, page, tmpBound, tmpExists, fileBytes, img_b64,
                   attempt, callLog, delays, slept, response, shown>>

\* img_b64 = base64.b64encode(tmp.read()).decode(); response = None
Encode ==
    /\ pc = "encode"
    /\ img_b64' = B64(fileBytes)
    /\ response' = NoResponse
    /\ attempt' = 0
    /\ pc' = "chat"
    /\ UNCHANGED <<outside, page, failures, tmpBound, tmpExists, fileBytes,
                   callLog, delays, slept, exc, shown>>

ReadFail ==
    /\ pc = "encode"
    /\ failures' = failures \cup {"read"}
    /\ Raise("read", 0)
    /\ UNCHANGED <<outside, page, tmpBound, tmpExists, fileBytes, img_b64,
                   attempt, callLog, delays, slept, response, shown>>

Call(ok) ==
    [model |-> ModelFor(analysis_type),
     prompt |-> PromptFor(analysis_type),
     images |-> <<img_b64>>,
     ok |-> ok]

\* one pass of `for attempt in range(3)` whose chat call returns: break
ChatOk ==
    /\ pc = "chat"
    /\ callLog' = Append(callLog, Call(TRUE))
    /\ response' = [state |-> "ok", content |-> Len(callLog) + 1]
    /\ pc' = "display"
    /\ UNCHANGED <<outside, page, failures, tmpBound, tmpExists, fileBytes,
                   img_b64, attempt, delays, slept, exc, shown>>

\* one pass whose chat call raises: re-raise on the last attempt, else sleep
ChatFail ==
    /\ pc = "chat"
    /\ callLog' = Append(callLog, Call(FALSE))
    /\ IF IsLastAttempt(attempt)
       THEN /\ failures' = failures \cup {"chat"}
            /\ Raise("chat", Len(callLog) + 1)
            /\ UNCHANGED <<attempt, delays, slept>>
       ELSE /\ delays' = delays + 1
            /\ slept' = slept + SleepSeconds
            /\ attempt' = attempt + 1
            /\ pc' = IF attempt + 1 < MaxAttempts THEN "chat" ELSE "display"
            /\ UNCHANGED <<failures, exc>>
    /\ UNCHANGED <<outside, page, tmpBound, tmpExists, fileBytes, img_b64,
                   response, shown>>

\* st.success .. st.write(response['message']['content']) .. st.warning
Display ==
    /\ pc = "display"
    /\ IF response.state = "None"
       THEN /\ Raise("type", 0)
            /\ UNCHANGED <<page, shown>>
       ELSE /\ page' = page \cup {"success", "findings", "disclaimer"}
            /\ shown' = response.content
            /\ pc' = "finally"
            /\ UNCHANGED exc
    /\ UNCHANGED <<outside, failures, tmpBound, tmpExists, fileBytes, img_b64,
                   attempt, callLog, delays, slept, response>>

\* except Exception as e: st.error(...)
Except ==
    /\ pc = "except"
    /\ page' = page \cup {"err_ai"}
    /\ pc' = "finally"
    /\ UNCHANGED <<outside, failures, analysisLocals>>

\* finally: if 'tmp' in locals(): os.unlink(tmp.name)
Finally ==
    /\ pc = "finally"
    /\ tmpExists' = IF FinallyUnlinks(tmpBound, exc) THEN FALSE ELSE tmpExists
    /\ pc' = "end"
    /\ UNCHANGED <<outside, page, failures, tmpBound, fileBytes, img_b64, attempt,
                   callLog, delays, slept, response, exc, shown>>

\* the "How to use" expander, the last statement of the script
EndOfScript ==
    /\ pc = "end"
    /\ page' = page \cup {"howto"}
    /\ pc' = "done"
    /\ UNCHANGED <<outside, failures, analysisLocals>>

\* the run is over: the script namespace is dropped, and the widgets that
\* were not rendered lose their value
EndRun ==
    /\ pc \in {"done", "stopped"}
    /\ pc' = "idle"
    /\ event' = "none"
    /\ sidebarShown' = (pc = "done")
    /\ chartShown' = ("chart" \in page)
    /\ indicators' = IF "chart" \in page THEN indicators ELSE DefaultIndicators
    /\ analysis_type' = IF "chart" \in page THEN analysis_type ELSE BasicLabel
    /\ ResetRunLocals
    /\ UNCHANGED session

Next ==
    \/ Rerun
    \/ ClickLoad
    \/ ChangeIndicators
    \/ ChangeMode
    \/ ClickGenerate
    \/ CacheExpire
    \/ SetupConnectFail
    \/ SetupList
    \/ SetupCheck
    \/ SetupReturn
    \/ LoadDataMiss
    \/ LoadDataHit
    \/ NoLoad
    \/ RenderChart
    \/ SkipChart
    \/ NoReport
    \/ CreateTmp
    \/ CreateTmpFail
    \/ WriteImage
    \/ WriteImageFail
    \/ Encode
    \/ ReadFail
    \/ ChatOk
    \/ ChatFail
    \/ Display
    \/ Except
    \/ Finally
    \/ EndOfScript
    \/ EndRun

Spec == Init /\ [][Next]_vars

(***************************************************************************)
(* Chart assembly on series about as long as the SMA windows: the run is   *)
(* at the chart with a loaded series and a selection of the indicators     *)
(* that use rolling windows.                                               *)
(***************************************************************************)
LongSeries ==
    {Saw(w + d, m) : w \in {Sma50Window, Sma200Window}, d \in (0 - Slack)..Slack,
                     m \in 1..MaxMod}

RollingOptions == {"50-Day SMA", "200-Day SMA", "Bollinger Bands"}
RollingSelections == {s \in SeqsUpTo(RollingOptions, MaxSel) : Injective(s)}

InitSMA ==
    /\ pc = "chart"
    /\ event = "none"
    /\ \E d \in LongSeries : stock_data = Data(d)
    /\ cache = Miss
    /\ lastLoad = "data"
    /\ indicators \in RollingSelections
    /\ analysis_type = BasicLabel
    /\ sidebarShown = TRUE
    /\ chartShown = TRUE
    /\ RunLocalsInit

NextSMA == RenderChart

SpecSMA == InitSMA /\ [][NextSMA]_vars

(***************************************************************************)
(* Properties.                                                             *)
(***************************************************************************)
AllFailed(log) == \A i \in 1..Len(log) : ~log[i].ok

\* C1: one Generate AI Report action calls the model at most 3 times and
\* never after a success; two failures then a success give exactly 3 calls,
\* 2 delays of 2 seconds and the third reply on the page; three failures give
\* exactly 3 calls, 2 delays, and the third failure is the error of the action.
RetryBoundedAndFinalOutcome ==
    LET n == Len(callLog)
    IN  /\ n <= 3
        /\ \A i \in 1..(n - 1) : ~callLog[i].ok
        /\ delays <= 2
        /\ (pc = "done" /\ n = 3 /\ ~callLog[1].ok /\ ~callLog[2].ok /\ callLog[3].ok)
              => /\ delays = 2
                 /\ slept = 4
                 /\ shown = 3
                 /\ "err_ai" \notin page
        /\ (pc = "done" /\ n = 3 /\ AllFailed(callLog))
              => /\ delays = 2
                 /\ slept = 4
                 /\ exc = [kind |-> "chat", call |-> 3]
                 /\ "err_ai" \in page
                 /\ shown = 0

ThirdAttemptSucceeded ==
    /\ pc = "done"
    /\ Len(callLog) = 3
    /\ callLog[3].ok
    /\ shown = 3
    /\ delays = 2

\* C2: when a Generate AI Report action is over, the temporary image file it
\* created does not exist, whatever the exit path.
TmpFileGoneAfterReport ==
    pc \in {"end", "done"} => ~tmpExists

TmpFileRemovedAfterChatFailure ==
    /\ pc = "done"
    /\ tmpBound
    /\ exc.kind = "chat"
    /\ ~tmpExists

\* C3: in a run that reaches its end the chart is rendered exactly when the
\* latest Load Data action returned a series; a fetch that raises or returns
\* an empty table writes an error, leaves None in the slot and no chart.
ChartIffLatestLoadReturnedSeries ==
    /\ pc = "done" => (("chart" \in page) <=> (lastLoad = "data"))
    /\ fetch \in {"raise", "empty"}
          => /\ stock_data = NoData
             /\ page \cap {"err_yfinance", "err_no_data"} # {}
             /\ "chart" \notin page
             /\ fig = <<>>
    /\ (fetch = "hit" /\ lastLoad = "None")
          => /\ stock_data = NoData
             /\ page \cap {"err_yfinance", "err_no_data"} # {}

FailedLoadReplacedShownSeries ==
    /\ pc = "done"
    /\ chartShown
    /\ fetch = "raise"
    /\ stock_data = NoData
    /\ "chart" \notin page

\* C4: a failure to connect to or list the model server halts the run in
\* setup_ollama before any fetch, chart or chat call; a failure of the price
\* fetch, the rasterization or the model chat ends as an error on the page of
\* a run that reaches the end of the script.
OnlySetupFailureHalts ==
    /\ "connect" \in failures
          => /\ pc = "stopped"
             /\ fetch = "none"
             /\ "chart" \notin page
             /\ fig = <<>>
             /\ callLog = <<>>
             /\ "err_connect" \in page
    /\ pc = "stopped" => failures = {"connect"}
    /\ pc = "done"
          => /\ "howto" \in page
             /\ "fetch" \in failures => "err_yfinance" \in page
             /\ failures \cap {"tmpfile", "raster", "read", "chat"} # {}
                   => "err_ai" \in page

HaltedBeforeRequestedLoad ==
    /\ pc = "stopped"
    /\ event = "load"
    /\ fetch = "none"

\* C5 as stated: whenever the listed catalog lacks the model the analysis
\* calls, setup_ollama has written the warning.
WarnsWhenExpectedModelMissing ==
    (pc = "setup_return" /\ "llama3" \notin models.names)
        => "warn_no_models" \in page

\* C5 amended: after a successful listing setup_ollama never halts, and it
\* writes the warning exactly when the catalog is empty.
WarnsExactlyWhenCatalogEmpty ==
    /\ pc = "setup_return" => (("warn_no_models" \in page) <=> (models.names = {}))
    /\ models.state = "listed" => pc \in {"setup_check", "setup_return"}
    /\ pc = "stopped" => "warn_no_models" \notin page

OtherModelsNoWarning ==
    /\ pc = "setup_return"
    /\ models.names = {"mistral"}
    /\ "warn_no_models" \notin page

NamesOf(ind) == {t.name : t \in Range(TracesOf(ind, <<>>))}

\* C6 as stated: the traces of an indicator selected earlier come before the
\* traces of an indicator selected later.
TracesInSelectionOrder ==
    fig # <<>> =>
        \A a, b \in 1..Len(indicators) :
            a < b =>
                \A i, j \in 2..Len(fig) :
                    (fig[i].name \in NamesOf(indicators[a])
                       /\ fig[j].name \in NamesOf(indicators[b])) => i < j

CodeOrder ==
    <<"50-Day SMA", "200-Day SMA", "20-Day EMA", "Upper Band", "Lower Band">>
PosInCode(name) == CHOOSE k \in 1..Len(CodeOrder) : CodeOrder[k] = name

\* C6 amended: after the candlestick trace the overlay traces come in the
\* fixed order 50-Day SMA, 200-Day SMA, 20-Day EMA, Upper Band, Lower Band,
\* whatever the order of selection.
TracesInCodeOrder ==
    fig # <<>> =>
        /\ fig[1].name = "Price"
        /\ \A i \in 2..Len(fig) : fig[i].name \in Range(CodeOrder)
        /\ \A i, j \in 2..Len(fig) :
              i < j => PosInCode(fig[i].name) < PosInCode(fig[j].name)

EmaSelectedFirstDrawnSecond ==
    /\ fig # <<>>
    /\ indicators = <<"20-Day EMA", "50-Day SMA">>
    /\ fig[2].name = "50-Day SMA"
    /\ fig[3].name = "20-Day EMA"

\* C7: for the loaded series the figure depends only on the set of selected
\* indicators: every selection with the same set, permuted or with repeats,
\* gives the same traces, and no trace name occurs twice.
TracesDependOnSelectedSetOnly ==
    fig # <<>> =>
        /\ \A sel \in SeqsUpTo(IndicatorOptions, MaxSel + 1) :
              Range(sel) = Range(indicators)
                  => Figure(stock_data.data, sel) = fig
        /\ \A i, j \in 1..Len(fig) : fig[i].name = fig[j].name => i = j

BandsThenEmaSelected ==
    /\ fig # <<>>
    /\ indicators = <<"Bollinger Bands", "20-Day EMA">>
    /\ Len(fig) = 4

\* sum of the first n closes
RECURSIVE Prefix(_, _)
Prefix(x, n) ==
    IF n <= 0 THEN 0
    ELSE IF n = 1 THEN x[1]
    ELSE IF n % 2 = 0 THEN Prefix(x, n \div 2) + Prefix(SubSeq(x, (n \div 2) + 1, n), n \div 2)
    ELSE Prefix(x, n - 1) + x[n]

IsSma(y, x, w) ==
    /\ Len(y) = Len(x)
    /\ \A i \in 1..Len(x) :
          IF i >= w
          THEN y[i].def /\ y[i].num * w = (Prefix(x, i) - Prefix(x, i - w)) * y[i].den
          ELSE ~y[i].def

\* C8: the 50-Day and 200-Day SMA overlays are as long as the series; from
\* the session that completes the first window the value is the mean of the
\* last 50 (200) closes, before it the value is undefined, so a series
\* shorter than the window gives an overlay with no defined value.
SmaOverlaysAreWindowMeans ==
    \A k \in 1..Len(fig) :
        /\ fig[k].name = "50-Day SMA" => IsSma(fig[k].y, stock_data.data, 50)
        /\ fig[k].name = "200-Day SMA" => IsSma(fig[k].y, stock_data.data, 200)

BothSmaDefinedAtEnd ==
    /\ Len(fig) = 3
    /\ fig[2].name = "50-Day SMA"
    /\ fig[3].name = "200-Day SMA"
    /\ fig[2].y[Len(fig[2].y)].def
    /\ fig[3].y[Len(fig[3].y)].def

\* C9: with either mode of the selector every chat call of every attempt
\* names llama3, never llava, and carries the base64 text of the image file.
EveryCallNamesLlama3 ==
    /\ \A m \in AnalysisModes : ~Contains(VisionNeedle, m)
    /\ \A i \in 1..Len(callLog) :
          /\ callLog[i].model = "llama3"
          /\ callLog[i].images = <<B64(fileBytes)>>
          /\ fileBytes \in Images

AdvancedModeCalledThreeTimes ==
    /\ Len(callLog) = 3
    /\ analysis_type = AdvancedLabel
    /\ callLog[3].prompt = "advanced"

Without(s, k) == SubSeq(s, 1, k - 1) \o SubSeq(s, k + 1, Len(s))

\* C10: every selected indicator adds at least one trace: the figure has
\* more traces with it than without it.
EverySelectedOptionAddsTrace ==
    fig # <<>> =>
        \A k \in 1..Len(indicators) :
            Len(fig) > Len(Figure(stock_data.data, Without(indicators, k)))
====
